---------------------------- MODULE Spec2Model ----------------------------
(***************************************************************************)
(* Model of src/Yukawa_RGE.py: the MSSM renormalisation-group running of   *)
(* the three gauge couplings (two loop) and seven Yukawa couplings (one    *)
(* loop).  The module-level driver (lines 12-104) and the derivative       *)
(* function beta_func (lines 32-89) are modelled statement by statement.   *)
(*                                                                         *)
(* Numbers.  Every Python float is a binary floating-point value m * 2^e   *)
(* with a significand of Prec bits (Prec = 53 in the program); every       *)
(* arithmetic operation rounds its exact result to the nearest such value, *)
(* ties to even, as IEEE-754 does.  Exponents are unbounded, so overflow   *)
(* to inf and underflow are not modelled.                                  *)
(*                                                                         *)
(* Names.  Lines 38-40 and 56-58 of the source spell four names with a     *)
(* blank inside (tr Yu2, tr Yd2, tr Ye2, y contrib1..3); as committed the  *)
(* file is rejected by the Python compiler at line 38.  The model reads    *)
(* them as the single names trYu2, trYd2, trYe2, y_contrib1..3 (line 65    *)
(* itself spells y_contrib3), which is the only reading under which any    *)
(* statement of the file runs.                                             *)
(***************************************************************************)
EXTENDS Integers, Sequences, FiniteSets, TLC

(***************************************************************************)
(* Floating-point arithmetic (Python float, numpy.float64)                 *)
(***************************************************************************)

\* Significand width in bits (53 for a Python float).
Prec == 8

RECURSIVE Pow2(_)
Pow2(n) == IF n <= 0 THEN 1 ELSE 2 * Pow2(n - 1)

RECURSIVE BitLen(_)
BitLen(n) == IF n <= 0 THEN 0 ELSE 1 + BitLen(n \div 2)

Abs(n) == IF n < 0 THEN -n ELSE n

Sgn(n) == IF n < 0 THEN -1 ELSE IF n > 0 THEN 1 ELSE 0

Max(a, b) == IF a >= b THEN a ELSE b

\* The float 0.0
Zero == [m |-> 0, e |-> 0]

\* The exact integer value m * 2^e rounded to Prec significant bits, ties to
\* even; the result is normalised (Prec-bit significand) so that equal
\* values have equal representations.
Round(m, e) ==
    LET a == Abs(m)
        L == BitLen(a)
    IN  IF a = 0 THEN Zero
        ELSE IF L <= Prec
             THEN [m |-> m * Pow2(Prec - L), e |-> e - (Prec - L)]
             ELSE LET s  == L - Prec
                      q  == a \div Pow2(s)
                      r  == a % Pow2(s)
                      h  == Pow2(s - 1)
                      q1 == IF r > h \/ (r = h /\ q % 2 = 1) THEN q + 1 ELSE q
                  IN  IF q1 = Pow2(Prec)
                      THEN [m |-> Sgn(m) * Pow2(Prec - 1), e |-> e + s + 1]
                      ELSE [m |-> Sgn(m) * q1, e |-> e + s]

\* An integer literal such as 3 or 6 used in float arithmetic.
FInt(n) == Round(n, 0)

FNeg(x) == [m |-> -x.m, e |-> x.e]

\* x * y
FMul(x, y) == Round(x.m * y.m, x.e + y.e)

\* x + y.  When the exponents are more than Prec + 1 apart the smaller
\* operand is below a quarter of the larger one's last place and the sum
\* rounds to the larger operand.
FAdd(x, y) ==
    IF x.m = 0 THEN y
    ELSE IF y.m = 0 THEN x
    ELSE LET d == x.e - y.e
         IN  IF d > Prec + 1 THEN x
             ELSE IF -d > Prec + 1 THEN y
             ELSE IF d >= 0 THEN Round(x.m * Pow2(d) + y.m, y.e)
             ELSE Round(x.m + y.m * Pow2(-d), x.e)

\* x - y
FSub(x, y) == FAdd(x, FNeg(y))

\* The quotient num / den of two positive integers, num/den in [1, 2), as
\* `bits` quotient bits followed by a sticky bit (1 iff a remainder is left).
RECURSIVE LongDiv(_, _, _, _)
LongDiv(num, den, bits, acc) ==
    IF bits = 0 THEN 2 * acc + (IF num > 0 THEN 1 ELSE 0)
    ELSE IF num >= den THEN LongDiv(2 * (num - den), den, bits - 1, 2 * acc + 1)
    ELSE LongDiv(2 * num, den, bits - 1, 2 * acc)

\* The shift that brings num / den into [1, 2): num * 2^k / den.
RECURSIVE ShiftTo(_, _)
ShiftTo(num, den) ==
    IF num >= 2 * den THEN ShiftTo(num, 2 * den) - 1
    ELSE IF num < den THEN ShiftTo(2 * num, den) + 1
    ELSE 0

\* The rational num / den (den > 0), correctly rounded to a float: the
\* value of a decimal literal, and the quotient of two significands.
FRat(num, den) ==
    IF num = 0 THEN Zero
    ELSE LET a  == Abs(num)
             k  == ShiftTo(a, den)
             n1 == IF k > 0 THEN a * Pow2(k) ELSE a
             d1 == IF k < 0 THEN den * Pow2(-k) ELSE den
             q  == LongDiv(n1, d1, Prec + 2, 0)
         IN  Round(Sgn(num) * q, -k - (Prec + 2))

\* x / y for y # 0 (every divisor in the program is a non-zero constant)
FDiv(x, y) ==
    LET q == FRat(x.m * Sgn(y.m), Abs(y.m))
    IN  IF q.m = 0 THEN Zero ELSE [m |-> q.m, e |-> q.e + x.e - y.e]

\* x ** 2 and x ** 3: the exact power, rounded once
FSq(x) == Round(x.m * x.m, 2 * x.e)

FCube(x) == Round(x.m * x.m * x.m, 3 * x.e)

\* x < y, x <= y, decided by the sign of the rounded difference (rounding
\* never changes the sign of a non-zero difference)
FLt(x, y) == FSub(x, y).m < 0

FLeq(x, y) == FSub(x, y).m <= 0

\* The largest r with r * r <= n
RECURSIVE ISqrt(_)
ISqrt(n) ==
    IF n < 2 THEN n
    ELSE LET s == 2 * ISqrt(n \div 4)
         IN  IF (s + 1) * (s + 1) <= n THEN s + 1 ELSE s

\* np.sqrt(x) for x > 0, correctly rounded: the integer square root of the
\* significand scaled to 2 * Prec + 4 bits or more, with a sticky bit.
FSqrt(x) ==
    IF x.m <= 0 THEN Zero
    ELSE LET j == IF (x.e - (Prec + 4)) % 2 = 0 THEN Prec + 4 ELSE Prec + 5
             n == x.m * Pow2(j)
             r == ISqrt(n)
         IN  Round(2 * r + (IF r * r = n THEN 0 ELSE 1), ((x.e - j) \div 2) - 1)

\* The integer part of x >= 0
FFloor(x) == IF x.e >= 0 THEN x.m * Pow2(x.e) ELSE x.m \div Pow2(-x.e)

\* 10 ** n for an integer n >= 0, by repeated squaring
RECURSIVE Pow10(_)
Pow10(n) ==
    IF n <= 0 THEN FInt(1)
    ELSE LET h == Pow10(n \div 2)
         IN  IF n % 2 = 0 THEN FSq(h) ELSE FMul(FInt(10), FSq(h))

(***************************************************************************)
(* Module-level constants (lines 12-27)                                    *)
(***************************************************************************)

\* np.pi
pi == FRat(355, 113)

\* MZ = 91.1876
MZ == FRat(911876, 10000)

\* MGUT = 2e16
MGUT == FMul(FInt(2), Pow10(16))

alpha1_MZ == FRat(16887, 1000000)

alpha2_MZ == FRat(3378, 100000)

alpha3_MZ == FRat(1184, 10000)

\* g_i = np.sqrt(4 * np.pi * alpha_i)
g1_MZ == FSqrt(FMul(FMul(FInt(4), pi), alpha1_MZ))

g2_MZ == FSqrt(FMul(FMul(FInt(4), pi), alpha2_MZ))

g3_MZ == FSqrt(FMul(FMul(FInt(4), pi), alpha3_MZ))

yt_MZ == FRat(99, 100)

yb_MZ == FRat(16, 1000)

ytau_MZ == FRat(1, 100)

\* The names bound once lines 12-27 have run
Constants ==
    [MZ |-> MZ, MGUT |-> MGUT,
     alpha1_MZ |-> alpha1_MZ, alpha2_MZ |-> alpha2_MZ, alpha3_MZ |-> alpha3_MZ,
     g1_MZ |-> g1_MZ, g2_MZ |-> g2_MZ, g3_MZ |-> g3_MZ,
     yt_MZ |-> yt_MZ, yb_MZ |-> yb_MZ, ytau_MZ |-> ytau_MZ]

\* y0 = [g1_MZ, g2_MZ, g3_MZ, yt_MZ, yb_MZ, ytau_MZ, 0.003, 0.0001, 0.06, 0.0005]
y0 ==
    << g1_MZ, g2_MZ, g3_MZ, yt_MZ, yb_MZ, ytau_MZ,
       FRat(3, 1000), FRat(1, 10000), FRat(6, 100), FRat(5, 10000) >>

(***************************************************************************)
(* State                                                                   *)
(***************************************************************************)

VARIABLES
    pc,      \* the module-level statement to run next
    glob,    \* the module-level names bound so far, name -> value
    init,    \* the initial vector that line 92 writes
    fpc,     \* the statement of beta_func to run next ("none": not called)
    loc,     \* the frame of the running beta_func call, name -> value
    exc,     \* the exception that ended the call ("none": none)
    ret,     \* the list the call returned (<<>>: none)
    entry,   \* the arguments and the globals as they were when the call began
    out,     \* the lines printed so far
    prev,    \* the previous completed call of the same harness run
    rel      \* how the current call's arguments relate to the previous call's

vars == << pc, glob, init, fpc, loc, exc, ret, entry, out, prev, rel >>

\* A frame or namespace with no names bound
Empty == [n \in {} |-> Zero]

Bound(f, n) == n \in DOMAIN f

(***************************************************************************)
(* beta_func (lines 32-89)                                                 *)
(***************************************************************************)

\* Line 35, with the third and fourth names exchanged
UnpackMisordered(v) ==
    [g1 |-> v[1], g2 |-> v[2], yt |-> v[3], g3 |-> v[4], yb |-> v[5],
     ytau |-> v[6], ys |-> v[7], yd |-> v[8], ymu |-> v[9], ye |-> v[10]]

\* g1, g2, g3, yt, yb, ytau, ys, yd, ymu, ye = y
Unpack(v) ==
    [g1 |-> v[1], g2 |-> v[2], g3 |-> v[3], yt |-> v[4], yb |-> v[5],
     ytau |-> v[6], ys |-> v[7], yd |-> v[8], ymu |-> v[9], ye |-> v[10]]

\* Line 38 with an explicit dependence on the scale argument
trYu2_scaled == FMul(FSq(loc.yt), FAdd(FInt(1), loc.t))

\* tr Yu2 = yt**2
trYu2 == FSq(loc.yt)

\* tr Yd2 = yb**2 + ys**2 + yd**2
trYd2 == FAdd(FAdd(FSq(loc.yb), FSq(loc.ys)), FSq(loc.yd))

\* Line 40 reduced to its third-generation term, as line 38 is
trYe2_thirdgen == FSq(loc.ytau)

\* tr Ye2 = ytau**2 + ymu**2 + ye**2
trYe2 == FAdd(FAdd(FSq(loc.ytau), FSq(loc.ymu)), FSq(loc.ye))

b1 == FDiv(FInt(33), FInt(5))

b2 == FInt(1)

b3 == FInt(3)

\* B = np.array([[199/25, 27/5, 88/5], [9/5, 25, 24], [11/5, 9, 14]]),
\* indexed from 0 as in the source
B ==
    [i \in 0..2 |->
       [j \in 0..2 |->
          CASE i = 0 /\ j = 0 -> FDiv(FInt(199), FInt(25))
            [] i = 0 /\ j = 1 -> FDiv(FInt(27), FInt(5))
            [] i = 0 /\ j = 2 -> FDiv(FInt(88), FInt(5))
            [] i = 1 /\ j = 0 -> FDiv(FInt(9), FInt(5))
            [] i = 1 /\ j = 1 -> FInt(25)
            [] i = 1 /\ j = 2 -> FInt(24)
            [] i = 2 /\ j = 0 -> FDiv(FInt(11), FInt(5))
            [] i = 2 /\ j = 1 -> FInt(9)
            [] i = 2 /\ j = 2 -> FInt(14)]]

\* The quotients 17.0/5 and 3.0/5 of line 56
c17_5 == FDiv(FInt(17), FInt(5))

c3_5 == FDiv(FInt(3), FInt(5))

\* y contrib1 = (17.0/5) * tr Yu2 + (3.0/5) * tr Yd2 + (3.0/5) * tr Ye2
y_contrib1 ==
    FAdd(FAdd(FMul(c17_5, loc.trYu2), FMul(c3_5, loc.trYd2)), FMul(c3_5, loc.trYe2))

\* y contrib2 = 3 * tr Yu2 + 3 * tr Yd2 + tr Ye2
y_contrib2 ==
    FAdd(FAdd(FMul(FInt(3), loc.trYu2), FMul(FInt(3), loc.trYd2)), loc.trYe2)

\* y contrib3 = 2 * tr Yu2 + 2 * tr Yd2
y_contrib3 == FAdd(FMul(FInt(2), loc.trYu2), FMul(FInt(2), loc.trYd2))

\* 16 * np.pi**2
K == FMul(FInt(16), FSq(pi))

\* (16 * np.pi**2)**2
K2 == FSq(K)

\* g**3 / (16 * np.pi**2) * b
OneLoop(g, b) == FMul(FDiv(FCube(g), K), b)

\* g**3 / (16 * np.pi**2)**2 * x
TwoLoop(g, x) == FMul(FDiv(FCube(g), K2), x)

\* c1 * g1**2 + c2 * g2**2 + c3 * g3**2, summed left to right
Mix(c1, c2, c3) ==
    FAdd(FAdd(FMul(c1, FSq(loc.g1)), FMul(c2, FSq(loc.g2))), FMul(c3, FSq(loc.g3)))

\* Line 61
beta_g1 ==
    FSub(FAdd(OneLoop(loc.g1, b1), TwoLoop(loc.g1, Mix(B[0][0], B[0][1], B[0][2]))),
         TwoLoop(loc.g1, loc.y_contrib1))

\* Line 63: the coefficient of g3**2 is read from B[1,1]
beta_g2 ==
    FSub(FAdd(OneLoop(loc.g2, b2), TwoLoop(loc.g2, Mix(B[1][0], B[1][1], B[1][1]))),
         TwoLoop(loc.g2, loc.y_contrib2))

\* Line 65
beta_g3 ==
    FSub(FAdd(OneLoop(loc.g3, b3), TwoLoop(loc.g3, Mix(B[2][0], B[2][1], B[2][2]))),
         TwoLoop(loc.g3, loc.y_contrib3))

\* 1 / (16 * np.pi**2)
InvK == FDiv(FInt(1), K)

\* (1 / (16 * np.pi**2)) * y * x
Yuk(yv, x) == FMul(FMul(InvK, yv), x)

\* The quotients 16/3, 13/15, 1/15 and 9/5 of lines 69-84
c16_3 == FDiv(FInt(16), FInt(3))

c13_15 == FDiv(FInt(13), FInt(15))

c1_15 == FDiv(FInt(1), FInt(15))

c9_5 == FDiv(FInt(9), FInt(5))

\* The gauge subtractions of lines 69, 72 and 75, summed left to right
GaugeUp ==
    FAdd(FAdd(FMul(c16_3, FSq(loc.g3)), FMul(FInt(3), FSq(loc.g2))),
         FMul(c13_15, FSq(loc.g1)))

GaugeDown ==
    FAdd(FAdd(FMul(c16_3, FSq(loc.g3)), FMul(FInt(3), FSq(loc.g2))),
         FMul(c1_15, FSq(loc.g1)))

GaugeLepton == FAdd(FMul(FInt(3), FSq(loc.g2)), FMul(c9_5, FSq(loc.g1)))

\* Line 69
beta_yt ==
    Yuk(loc.yt,
        FSub(FAdd(FAdd(FAdd(FMul(FInt(6), FSq(loc.yt)), FSq(loc.yb)),
                       FMul(FInt(3), loc.trYu2)),
                  loc.trYd2),
             GaugeUp))

\* Line 72
beta_yb ==
    Yuk(loc.yb,
        FSub(FAdd(FAdd(FAdd(FMul(FInt(6), FSq(loc.yb)), FSq(loc.yt)),
                       loc.trYe2),
                  FMul(FInt(3), loc.trYd2)),
             GaugeDown))

\* Line 75
beta_ytau ==
    Yuk(loc.ytau,
        FSub(FAdd(FAdd(FMul(FInt(4), FSq(loc.ytau)), loc.trYe2),
                  FMul(FInt(3), loc.trYd2)),
             GaugeLepton))

\* Line 78: no self term and no yt**2 term
beta_ys ==
    Yuk(loc.ys, FSub(FAdd(loc.trYe2, FMul(FInt(3), loc.trYd2)), GaugeDown))

\* The attributes a float offers by name; "replace" (line 81) is a method of
\* str, not of float or numpy.float64
FloatAttributes ==
    {"as_integer_ratio", "conjugate", "fromhex", "hex", "imag", "is_integer", "real"}

\* Line 35: unpacking a vector that does not hold 10 values raises
L35 ==
    /\ fpc = "L35"
    /\ IF Len(loc.y) = 10
       THEN /\ loc' = Unpack(loc.y) @@ loc
            /\ fpc' = "L38"
            /\ exc' = exc
       ELSE /\ fpc' = "raised"
            /\ exc' = "ValueError"
            /\ loc' = loc
    /\ UNCHANGED << pc, glob, init, ret, entry, out, prev, rel >>

\* Lines 38-40
L38 ==
    /\ fpc = "L38"
    /\ loc' = [trYu2 |-> trYu2, trYd2 |-> trYd2, trYe2 |-> trYe2] @@ loc
    /\ fpc' = "L56"
    /\ UNCHANGED << pc, glob, init, exc, ret, entry, out, prev, rel >>

\* Lines 45-58
L56 ==
    /\ fpc = "L56"
    /\ loc' = [b1 |-> b1, b2 |-> b2, b3 |-> b3, B |-> B,
               y_contrib1 |-> y_contrib1, y_contrib2 |-> y_contrib2,
               y_contrib3 |-> y_contrib3] @@ loc
    /\ fpc' = "L61"
    /\ UNCHANGED << pc, glob, init, exc, ret, entry, out, prev, rel >>

\* Lines 61-65
L61 ==
    /\ fpc = "L61"
    /\ loc' = [beta_g1 |-> beta_g1, beta_g2 |-> beta_g2, beta_g3 |-> beta_g3] @@ loc
    /\ fpc' = "L69"
    /\ UNCHANGED << pc, glob, init, exc, ret, entry, out, prev, rel >>

\* Lines 69-75
L69 ==
    /\ fpc = "L69"
    /\ loc' = [beta_yt |-> beta_yt, beta_yb |-> beta_yb, beta_ytau |-> beta_ytau] @@ loc
    /\ fpc' = "L78"
    /\ UNCHANGED << pc, glob, init, exc, ret, entry, out, prev, rel >>

\* Line 78
L78 ==
    /\ fpc = "L78"
    /\ loc' = [beta_ys |-> beta_ys] @@ loc
    /\ fpc' = "L81"
    /\ UNCHANGED << pc, glob, init, exc, ret, entry, out, prev, rel >>

\* Line 81: beta_ys is a float, the lookup of its attribute replace fails and
\* the call ends in AttributeError.  Lines 84-89 (beta_ymu, beta_ye and the
\* return of the 10 derivatives) are therefore never run.
L81 ==
    /\ fpc = "L81"
    /\ "replace" \notin FloatAttributes
    /\ fpc' = "raised"
    /\ exc' = "AttributeError"
    /\ UNCHANGED << pc, glob, init, loc, ret, entry, out, prev, rel >>

beta_func == L35 \/ L38 \/ L56 \/ L61 \/ L69 \/ L78 \/ L81

\* The call has ended, by return or by exception
Ended == fpc \in {"raised", "returned"}

(***************************************************************************)
(* Module-level driver (lines 12-104)                                      *)
(***************************************************************************)

\* Number of sample points (1000 at line 95)
NumSamples == 4

\* np.log(MGUT / MZ) = ln(2e16 / 91.1876) = 33.0216...
LogRange == FRat(330216, 10000)

\* np.linspace(start, stop, num)[i - 1], 1 <= i <= num: start + (i-1) * step,
\* the last point set to stop itself
linspace(start, stop, num) ==
    [i \in 1..num |->
        IF i = num THEN stop
        ELSE FAdd(FMul(FInt(i - 1), FDiv(FSub(stop, start), FInt(num - 1))), start)]

\* 10.0 ** x for x >= 0: exact at the integers, linear between two
\* consecutive integers (strictly increasing, as the power is)
power10(x) ==
    LET n == FFloor(x)
    IN  FMul(Pow10(n), FAdd(FInt(1), FMul(FInt(9), FSub(x, FInt(n)))))

\* np.logspace(start, stop, num) = 10 ** np.linspace(start, stop, num)
logspace(start, stop, num) ==
    [i \in 1..num |-> power10(linspace(start, stop, num)[i])]

\* y0 with its three gauge couplings multiplied by the signs s[1], s[2], s[3]
Signed(s) == [i \in 1..10 |-> IF i <= 3 THEN FMul(FInt(s[i]), y0[i]) ELSE y0[i]]

\* The initial vectors line 92 is run with: the literal one, the ones whose
\* gauge couplings are zero or negative, one entry short, one entry long
InitialVectors ==
    { Signed(s) : s \in [1..3 -> {-1, 0, 1}] }
        \cup { SubSeq(y0, 1, 9), Append(y0, FRat(5, 10000)) }

NoCall == [y |-> << >>, glob |-> Empty]

NoPrev == [valid |-> FALSE, loc |-> Empty, exc |-> "none", ret |-> << >>]

NoRel == [kind |-> "none", i |-> 0, j |-> 0]

Init ==
    /\ pc = "L12"
    /\ glob = Empty
    /\ init \in InitialVectors
    /\ fpc = "none"
    /\ loc = Empty
    /\ exc = "none"
    /\ ret = << >>
    /\ entry = NoCall
    /\ out = << >>
    /\ prev = NoPrev
    /\ rel = NoRel

\* Lines 12-27
L12 ==
    /\ pc = "L12"
    /\ glob' = Constants
    /\ pc' = "L92"
    /\ UNCHANGED << init, fpc, loc, exc, ret, entry, out, prev, rel >>

\* Line 92
L92 ==
    /\ pc = "L92"
    /\ glob' = [y0 |-> init] @@ glob
    /\ pc' = "L95"
    /\ UNCHANGED << init, fpc, loc, exc, ret, entry, out, prev, rel >>

\* Line 95
L95 ==
    /\ pc = "L95"
    /\ glob' = [t |-> logspace(Zero, LogRange, NumSamples)] @@ glob
    /\ pc' = "L98"
    /\ UNCHANGED << init, fpc, loc, exc, ret, entry, out, prev, rel >>

\* Line 98, entry: odeint takes y0 and t as given and asks beta_func for the
\* derivative at (y0, t[0])
L98 ==
    /\ pc = "L98"
    /\ loc' = [y |-> glob.y0, t |-> glob.t[1]]
    /\ entry' = [y |-> glob.y0, glob |-> glob]
    /\ fpc' = "L35"
    /\ pc' = "odeint"
    /\ UNCHANGED << glob, init, exc, ret, out, prev, rel >>

\* What odeint hands back when the derivative function returns: a matrix
\* whose last row is finite, or not; without full_output its status is a
\* warning only, and line 98 keeps no record of it
OdeintResults == {"finite", "nonfinite", "not_converged"}

\* Line 98, exit, and line 104.  An exception raised by the derivative
\* function leaves odeint and the module: the run ends in a traceback before
\* sol is bound and nothing is printed.  Otherwise sol is bound to whatever
\* odeint hands back and line 104 prints its last row's first entry.
L98_exit ==
    /\ pc = "odeint"
    /\ Ended
    /\ IF fpc = "raised"
       THEN /\ pc' = "crashed"
            /\ UNCHANGED << glob, out >>
       ELSE \E r \in OdeintResults :
            /\ glob' = [sol |-> r] @@ glob
            /\ out' = Append(out, << "g1 at GUT:", r >>)
            /\ pc' = "done"
    /\ UNCHANGED << init, fpc, loc, exc, ret, entry, prev, rel >>

Next == L12 \/ L92 \/ L95 \/ L98 \/ beta_func \/ L98_exit

Spec == Init /\ [][Next]_vars

(***************************************************************************)
(* beta_func on its own: called on vectors of 10 couplings, then called    *)
(* again at another scale or with two entries of one sector exchanged      *)
(***************************************************************************)

\* The places of the down-type (yb, ys, yd) and charged-lepton (ytau, ymu,
\* ye) entries in the vector, in the order lines 39 and 40 sum them
DownSlots == << 5, 7, 8 >>

LeptonSlots == << 6, 9, 10 >>

Range(q) == { q[i] : i \in DOMAIN q }

GaugeInputs ==
    { << g1_MZ, g2_MZ, g3_MZ >>,
      << FInt(1), FRat(1, 2), FInt(2) >>,
      << Zero, FNeg(g2_MZ), g3_MZ >> }

DownInputs == { yb_MZ, FRat(3, 1000) }

LeptonInputs == { ytau_MZ, FRat(6, 100) }

\* The vector of gauge couplings g, top coupling u, down-type couplings d
\* and charged-lepton couplings l, in the order of line 35
Vector(g, u, d, l) ==
    << g[1], g[2], g[3], u, d[1], l[1], d[2], d[3], l[2], l[3] >>

\* The coupling vectors beta_func is called on: every Yukawa coupling
\* non-zero, or every one of them zero
Inputs ==
    { Vector(g, yt_MZ, d, l) :
        g \in GaugeInputs, d \in [1..3 -> DownInputs], l \in [1..3 -> LeptonInputs] }
      \cup { Vector(g, Zero, << Zero, Zero, Zero >>, << Zero, Zero, Zero >>) :
                g \in GaugeInputs }

\* The scale values beta_func is called at
Scales == { Zero, FInt(1) }

\* v with its entries i and j exchanged
Swap(v, i, j) ==
    [k \in DOMAIN v |-> IF k = i THEN v[j] ELSE IF k = j THEN v[i] ELSE v[k]]

Loaded == [y0 |-> y0] @@ Constants

InitBeta ==
    /\ pc = "loaded"
    /\ glob = Loaded
    /\ init = y0
    /\ \E v \in Inputs, s \in Scales :
         /\ loc = [y |-> v, t |-> s]
         /\ entry = [y |-> v, glob |-> Loaded]
    /\ fpc = "L35"
    /\ exc = "none"
    /\ ret = << >>
    /\ out = << >>
    /\ prev = NoPrev
    /\ rel = NoRel

\* beta_func(v, s), called after the call on which it follows
Call(v, s, r) ==
    /\ pc = "loaded"
    /\ Ended
    /\ prev' = [valid |-> TRUE, loc |-> loc, exc |-> exc, ret |-> ret]
    /\ rel' = r
    /\ loc' = [y |-> v, t |-> s]
    /\ entry' = [y |-> v, glob |-> glob]
    /\ fpc' = "L35"
    /\ exc' = "none"
    /\ ret' = << >>
    /\ UNCHANGED << pc, glob, init, out >>

\* The same vector at another scale
CallAgain ==
    \E s \in Scales \ {loc.t} :
        Call(loc.y, s, [kind |-> "same", i |-> 0, j |-> 0])

\* The vector with two entries of one sector exchanged, at the same scale
CallSwapped ==
    \E q \in {DownSlots, LeptonSlots} :
        \E a, b \in 1..3 :
            /\ a < b
            /\ Call(Swap(loc.y, q[a], q[b]), loc.t,
                    [kind |-> "swap", i |-> q[a], j |-> q[b]])

NextBeta == beta_func \/ CallAgain \/ CallSwapped

SpecBeta == InitBeta /\ [][NextBeta]_vars

(***************************************************************************)
(* Properties                                                              *)
(***************************************************************************)

\* The call ran on a vector of 10 couplings
TenCouplings == fpc # "none" /\ Len(entry.y) = 10

\* C1: every call of beta_func on a 10-element vector returns normally, a
\* list of exactly 10 derivatives.  Stated of the ended call: it ended by
\* return, not by an exception, and what it returned has 10 entries.
C1_ReturnsTenDerivatives ==
    (TenCouplings /\ Ended) => (fpc = "returned" /\ exc = "none" /\ Len(ret) = 10)

\* The module-level run is over
RunOver == pc \in {"crashed", "done"}

\* C2: run on the literal initial vector, the program ends at the reporting
\* step with a final row of finite values, not in an error.
C2_LiteralRunReports ==
    (init = y0 /\ RunOver) =>
        (pc = "done" /\ Bound(glob, "sol") /\ glob.sol = "finite" /\ out # << >>)

\* An initial vector that is not 10 long or has a gauge coupling that is not
\* positive
Invalid(v) == Len(v) # 10 \/ \E i \in 1..3 : v[i].m <= 0

\* C3: an invalid initial vector is rejected before the integrator is
\* invoked: with such a vector the run never enters odeint and beta_func is
\* never called.
C3_InvalidRejectedFirst ==
    Invalid(init) => (pc \notin {"odeint", "crashed", "done"} /\ fpc = "none")

\* The run ended without a converged, finite trajectory
NoTrajectory == RunOver /\ ~(Bound(glob, "sol") /\ glob.sol = "finite")

ZeroYukawa == TenCouplings /\ \A i \in 4..10 : entry.y[i] = Zero

\* C5: when every Yukawa entry is exactly 0 the three traces are exactly 0
\* and so are the three Yukawa contributions to the gauge derivatives,
\* whatever g1, g2, g3 are.
C5_ZeroYukawa ==
    ZeroYukawa =>
        /\ Bound(loc, "trYe2") =>
             (loc.trYu2 = Zero /\ loc.trYd2 = Zero /\ loc.trYe2 = Zero)
        /\ Bound(loc, "y_contrib3") =>
             (loc.y_contrib1 = Zero /\ loc.y_contrib2 = Zero /\ loc.y_contrib3 = Zero)

\* A call on a zero-Yukawa vector with three non-zero gauge couplings that
\* has computed its Yukawa contributions
C5_Witness ==
    /\ ZeroYukawa
    /\ Bound(loc, "y_contrib3")
    /\ loc.g1 # Zero /\ loc.g2 # Zero /\ loc.g3 # Zero
    /\ loc.y_contrib1 = Zero

\* The call runs on the previous call's vector with two entries of one
\* sector exchanged, and has computed its traces
SwappedTraces == rel.kind = "swap" /\ prev.valid /\ Bound(loc, "trYe2")

\* C6 as claimed: exchanging two entries of a sector leaves all three traces
\* unchanged.
C6_TracesUnchanged ==
    SwappedTraces =>
        /\ loc.trYu2 = prev.loc.trYu2
        /\ loc.trYd2 = prev.loc.trYd2
        /\ loc.trYe2 = prev.loc.trYe2

\* |a - b| is at most n units in the last place of the larger of a and b
WithinUlps(a, b, n) ==
    \/ a = b
    \/ /\ a.m # 0
       /\ b.m # 0
       /\ LET d == FSub(a, b)
          IN  FLeq([m |-> Abs(d.m), e |-> d.e], Round(n, Max(a.e, b.e)))

\* C6 as amended: exchanging the two entries summed first (yb and ys, ytau
\* and ymu) leaves the sector's trace exactly unchanged; an exchange with
\* the entry summed last (yd, ye) leaves it within two units in the last
\* place; the traces of the other two sectors are exactly unchanged.
C6_TracesUnchangedUpToRounding ==
    SwappedTraces =>
        /\ loc.trYu2 = prev.loc.trYu2
        /\ rel.i \in Range(LeptonSlots) => loc.trYd2 = prev.loc.trYd2
        /\ rel.i \in Range(DownSlots) => loc.trYe2 = prev.loc.trYe2
        /\ (rel.i = DownSlots[1] /\ rel.j = DownSlots[2]) => loc.trYd2 = prev.loc.trYd2
        /\ (rel.i = LeptonSlots[1] /\ rel.j = LeptonSlots[2]) => loc.trYe2 = prev.loc.trYe2
        /\ WithinUlps(loc.trYd2, prev.loc.trYd2, 2)
        /\ WithinUlps(loc.trYe2, prev.loc.trYe2, 2)

\* An exchange with the entry summed last that changed the trace's last place
C6_Witness ==
    /\ SwappedTraces
    /\ rel.j = LeptonSlots[3]
    /\ loc.trYe2 # prev.loc.trYe2
    /\ WithinUlps(loc.trYe2, prev.loc.trYe2, 2)

\* Everything a call computed from its vector: its frame without the scale
Computed(f) == [n \in (DOMAIN f) \ {"t"} |-> f[n]]

\* C7: a call leaves its vector and the module-level names as they were, and
\* a call on the same vector at another scale ends the same way with the
\* same values.
C7_PureAndScaleFree ==
    /\ fpc # "none" => (loc.y = entry.y /\ glob = entry.glob)
    /\ (Ended /\ rel.kind = "same") =>
          /\ loc.y = prev.loc.y
          /\ exc = prev.exc
          /\ ret = prev.ret
          /\ Computed(loc) = Computed(prev.loc)

\* A call that ended after a call on the same vector, with a non-zero top
\* coupling, at another scale
C7_Witness ==
    /\ Ended
    /\ rel.kind = "same"
    /\ loc.t # prev.loc.t
    /\ loc.yt # Zero
    /\ Bound(loc, "beta_ys")
    /\ glob = Loaded

\* beta(g_i) as line 60 and the claim state it, with the coefficients
\* B[i][0], B[i][1], B[i][2] and the one-loop coefficient b
GaugeBeta(g, b, i, contrib) ==
    FSub(FAdd(OneLoop(g, b), TwoLoop(g, Mix(B[i][0], B[i][1], B[i][2]))),
         TwoLoop(g, contrib))

\* C8: each gauge derivative is g^3/(16 pi^2) b_i plus g^3/(16 pi^2)^2 times
\* the sum over j of B[i][j] g_j^2, less the Yukawa contribution.
C8_GaugeMixing ==
    Bound(loc, "beta_g3") =>
        /\ loc.beta_g1 = GaugeBeta(loc.g1, b1, 0, loc.y_contrib1)
        /\ loc.beta_g2 = GaugeBeta(loc.g2, b2, 1, loc.y_contrib2)
        /\ loc.beta_g3 = GaugeBeta(loc.g3, b3, 2, loc.y_contrib3)

\* The beta_yb formula of line 72 with the coupling s in place of yb, in the
\* prefactor and in the self term
DownFormula(s) ==
    Yuk(s,
        FSub(FAdd(FAdd(FAdd(FMul(FInt(6), FSq(s)), FSq(loc.yt)), loc.trYe2),
                  FMul(FInt(3), loc.trYd2)),
             GaugeDown))

\* The beta_ytau formula of line 75 with the coupling s in place of ytau
LeptonFormula(s) ==
    Yuk(s,
        FSub(FAdd(FAdd(FMul(FInt(4), FSq(s)), loc.trYe2), FMul(FInt(3), loc.trYd2)),
             GaugeLepton))

\* C9: beta_ys is the beta_yb formula with ys as self-coupling, and a call
\* that has ended has likewise given beta_yd, beta_ymu and beta_ye the
\* formula of their sector with their own coupling.
C9_LightGenerations ==
    /\ Bound(loc, "beta_ys") => loc.beta_ys = DownFormula(loc.ys)
    /\ (TenCouplings /\ Ended) =>
          /\ Bound(loc, "beta_yd") /\ loc.beta_yd = DownFormula(loc.yd)
          /\ Bound(loc, "beta_ymu") /\ loc.beta_ymu = LeptonFormula(loc.ymu)
          /\ Bound(loc, "beta_ye") /\ loc.beta_ye = LeptonFormula(loc.ye)

\* C10: the sample points handed to the integrator increase strictly, from
\* 0 to ln(MGUT / MZ).
C10_SamplePoints ==
    Bound(glob, "t") =>
        /\ \A i \in 1..(NumSamples - 1) : FLt(glob.t[i], glob.t[i + 1])
        /\ glob.t[1] = Zero
        /\ glob.t[NumSamples] = LogRange

=============================================================================
